---- MODULE Spec2Model ----
(***************************************************************************)
(* Model of simulacao_epidemia.py: the SIR equations and their             *)
(* integration, the one-dimensional stochastic cellular automaton on a     *)
(* ring, the box-counting dimension estimator and the entry point main.    *)
(*                                                                         *)
(* Real numbers are exact rationals.  In the automaton every probability   *)
(* and every random draw is a numerator over Denom: k_infection, gamma_ca  *)
(* and the prevalences I_sir[t] are n/Denom, and np.random.rand() yields   *)
(* d/Denom with 0 <= d < Denom, i.e. a value of [0, 1); the draws tried    *)
(* are the least and the greatest of them (DrawValues).                    *)
(***************************************************************************)
EXTENDS Integers, Sequences, FiniteSets

VARIABLES
    \* run_ca_simulation: arguments and locals
    L, time_steps, I_sir, gamma_ca, k_infection,
    grid, grid_history, t, rand, ca_pc,
    \* calculate_box_dimension: argument, locals, returned value
    grid_state, box_sizes, box_counts, box_exit, box_result, box_pc,
    \* run_sir_model: arguments, the rows of the solution, control position
    sir_args, solution, sir_pc,
    \* main: the lines printed, the output directory, main's locals
    console, dir_exists, files, can_write, computed, main_pc

caVars == <<L, time_steps, I_sir, gamma_ca, k_infection,
            grid, grid_history, t, rand, ca_pc>>

boxVars == <<grid_state, box_sizes, box_counts, box_exit, box_result, box_pc>>

sirVars == <<sir_args, solution, sir_pc>>

mainVars == <<console, dir_exists, files, can_write, computed, main_pc>>

vars == <<caVars, boxVars, sirVars, mainVars>>

----------------------------------------------------------------------------
(* Bounds of the model *)

MaxL == 4
MaxSteps == 3
Denom == 2
MaxGridLen == 6
MaxN == 2
MaxTime == 1
MaxPoints == 3
MaxDenominator == 1000

----------------------------------------------------------------------------
(* Cell states (lines 32-34) *)

SUSCEPTIBLE == 0
INFECTED == 1
RECOVERED == 2

\* marks a cell for which np.random.rand() was not called in the last sweep
NoDraw == -1

----------------------------------------------------------------------------
(* The state of a function that is not being run *)

CAIdle ==
    /\ L = 1
    /\ time_steps = 1
    /\ I_sir = <<>>
    /\ gamma_ca = 0
    /\ k_infection = 0
    /\ grid = <<>>
    /\ grid_history = <<>>
    /\ t = 0
    /\ rand = <<>>
    /\ ca_pc = "idle"

BoxIdle ==
    /\ grid_state = <<>>
    /\ box_sizes = <<>>
    /\ box_counts = <<>>
    /\ box_exit = "none"
    /\ box_result = "none"
    /\ box_pc = "idle"

SirIdle ==
    /\ sir_args = <<>>
    /\ solution = <<>>
    /\ sir_pc = "idle"

MainIdle ==
    /\ console = <<>>
    /\ dir_exists = FALSE
    /\ files = {}
    /\ can_write = FALSE
    /\ computed = {}
    /\ main_pc = "idle"

----------------------------------------------------------------------------
(* run_ca_simulation *)

Cells(len) == 0 .. (len - 1)

seed_index_low(len) == (len - 1) \div 2

\* L // 2 (line 41)
seed_index(len) == len \div 2

\* grid = np.full(L, SUSCEPTIBLE); grid[L // 2] = INFECTED (lines 40-41)
initial_grid(len) ==
    [i \in Cells(len) |-> IF i = seed_index(len) THEN INFECTED ELSE SUSCEPTIBLE]

\* grid_history = np.zeros((time_steps, L)); grid_history[0, :] = grid (43-44)
initial_history(steps, len) ==
    [r \in 0 .. (steps - 1) |->
        IF r = 0 THEN initial_grid(len) ELSE [i \in Cells(len) |-> 0]]

neighbor_source_partial(old, new) == new

\* the array the neighbours are read from: grid, never new_grid (lines 54-55)
neighbor_source(old, new) == old

\* lines 54-61: the two ring neighbours, counted one by one
infected_neighbors_skip(g, i, len) ==
    (IF g[(i - 1 + len) % len] = INFECTED THEN 1 ELSE 0)
  + (IF g[(i + 2) % len] = INFECTED THEN 1 ELSE 0)

infected_neighbors(g, i, len) ==
    (IF g[(i - 1 + len) % len] = INFECTED THEN 1 ELSE 0)
  + (IF g[(i + 1) % len] = INFECTED THEN 1 ELSE 0)

prob_infection_no_count(k, n, prevalence) == k * prevalence

\* line 65, as a numerator over Denom * Denom
prob_infection(k, n, prevalence) == k * n * prevalence

\* line 66: np.random.rand() < prob_infection, with the draw d / Denom
draw_below_prob(d, p) == d * Denom < p

\* line 71: np.random.rand() < gamma_ca
draw_below_gamma(d, g) == d < g

new_grid_zeros(g) == [i \in DOMAIN g |-> SUSCEPTIBLE]

\* line 47: new_grid = grid.copy()
new_grid_start(g) == g

infected_rule_reinfect(cur, d, g) ==
    IF draw_below_gamma(d, g) THEN SUSCEPTIBLE ELSE cur

\* lines 70-72: the rule of an Infected cell; cur is new_grid[i]
infected_rule(cur, d, g) ==
    IF draw_below_gamma(d, g) THEN RECOVERED ELSE cur

\* lines 52-72: the value new_grid[i] has after the body of the inner loop
cell_update(old, new, i, len, d, k, g, prevalence) ==
    IF old[i] = SUSCEPTIBLE
    THEN LET n == infected_neighbors(neighbor_source(old, new), i, len)
         IN  IF n > 0 /\ draw_below_prob(d, prob_infection(k, n, prevalence))
             THEN INFECTED
             ELSE new[i]
    ELSE IF old[i] = INFECTED
         THEN infected_rule(new[i], d, g)
         ELSE new[i]

\* lines 50-72: the inner loop from index i on; ds[j] is the draw for cell j
RECURSIVE sweep(_, _, _, _, _, _, _, _)
sweep(old, new, i, len, ds, k, g, prevalence) ==
    IF i >= len
    THEN new
    ELSE sweep(old,
               [new EXCEPT ![i] = cell_update(old, new, i, len, ds[i], k, g, prevalence)],
               i + 1, len, ds, k, g, prevalence)

\* the cells for which the sweep calls np.random.rand(): a Susceptible cell
\* with an Infected neighbour in grid (line 63) and an Infected cell (line 70)
draw_cells(old, len) ==
    {i \in Cells(len) :
        \/ old[i] = SUSCEPTIBLE /\ infected_neighbors(old, i, len) > 0
        \/ old[i] = INFECTED}

\* the values a parameter given as a numerator over Denom ranges over:
\* 0, 1 / Denom and 1
ParamValues == {0, 1, Denom}

\* the draws tried for np.random.rand(), as numerators over Denom: the least
\* value of [0, 1) and the greatest one the resolution has
DrawValues == {0, Denom - 1}

CAInit ==
    /\ L \in 1 .. MaxL
    /\ time_steps \in 1 .. MaxSteps
    /\ I_sir \in [0 .. (time_steps - 1) -> ParamValues]
    /\ gamma_ca \in ParamValues
    /\ k_infection \in ParamValues
    /\ grid = initial_grid(L)
    /\ grid_history = initial_history(time_steps, L)
    /\ t = 1
    /\ rand = [i \in Cells(L) |-> NoDraw]
    /\ ca_pc = "loop"

\* one iteration of "for t in range(1, time_steps)" (lines 46-75)
CAStep ==
    /\ ca_pc = "loop"
    /\ t < time_steps
    /\ \E dd \in [draw_cells(grid, L) -> DrawValues] :
          LET prevalence == I_sir[t]
              ds == [i \in Cells(L) |-> IF i \in DOMAIN dd THEN dd[i] ELSE 0]
              new_grid == sweep(grid, new_grid_start(grid), 0, L, ds,
                                k_infection, gamma_ca, prevalence)
          IN  /\ grid' = new_grid
              /\ grid_history' = [grid_history EXCEPT ![t] = new_grid]
              /\ rand' = [i \in Cells(L) |->
                            IF i \in DOMAIN dd THEN dd[i] ELSE NoDraw]
    /\ t' = t + 1
    /\ UNCHANGED <<L, time_steps, I_sir, gamma_ca, k_infection, ca_pc, boxVars, sirVars, mainVars>>

\* line 77: return grid_history
CAReturn ==
    /\ ca_pc = "loop"
    /\ t >= time_steps
    /\ ca_pc' = "done"
    /\ UNCHANGED <<L, time_steps, I_sir, gamma_ca, k_infection,
                   grid, grid_history, t, rand, boxVars, sirVars, mainVars>>

CANext == CAStep \/ CAReturn

\* a call of the function, the rest of the module's state being idle
InitCA == CAInit /\ BoxIdle /\ SirIdle /\ MainIdle

SpecCA == InitCA /\ [][CANext]_vars

----------------------------------------------------------------------------
(* calculate_box_dimension *)

\* the float 0.0 of lines 86, 95, 110, 123 and 125
ZeroDim == [kind |-> "zero"]

active_test_all(v) == v >= 0

\* grid_state > 0 (lines 83, 103)
active_test(v) == v > 0

\* np.where(grid_state > 0)[0] (line 83)
active_cells_indices(g) == {i \in DOMAIN g : active_test(g[i])}

\* int(np.log2(n)) for n >= 1 (line 91)
RECURSIVE FloorLog2(_)
FloorLog2(n) == IF n < 2 THEN 0 ELSE 1 + FloorLog2(n \div 2)

RECURSIVE Pow2(_)
Pow2(e) == IF e <= 0 THEN 1 ELSE 2 * Pow2(e - 1)

\* [2**i for i in range(max_power) if 2**i < L] (lines 91-92)
gen_box_sizes(len) ==
    LET max_power == FloorLog2(len)
        all == [j \in 1 .. max_power |-> Pow2(j - 1)]
        below(x) == x < len
    IN  SelectSeq(all, below)

\* lines 100-104: the windows grid_state[i:i+size] for i in range(0, L, size)
\* that hold an active cell
box_count(g, len, size) ==
    Cardinality({w \in 0 .. ((len - 1) \div size) :
        \E i \in (w * size) .. (w * size + size - 1) :
            i < len /\ active_test(g[i])})

\* scipy.stats.linregress on x = log(1 / size), y = log(count) (lines 116-121):
\* ValueError on fewer than two points or identical x, otherwise the slope,
\* kept as the regression it is the slope of
linregress(sizes, counts) ==
    IF Len(sizes) < 2 \/ \A a \in DOMAIN sizes : sizes[a] = sizes[1]
    THEN [kind |-> "ValueError"]
    ELSE [kind |-> "slope", sizes |-> sizes, counts |-> counts]

\* the function body (lines 83-125): exit is the return statement taken
calculate_box_dimension(g) ==
    LET len == Cardinality(DOMAIN g)
        sizes == gen_box_sizes(len)
        counts == [a \in DOMAIN sizes |-> box_count(g, len, sizes[a])]
        positive(a) == counts[a] > 0
        valid_indices == SelectSeq([a \in DOMAIN sizes |-> a], positive)
        box_sizes_valid == [a \in DOMAIN valid_indices |-> sizes[valid_indices[a]]]
        box_counts_valid == [a \in DOMAIN valid_indices |-> counts[valid_indices[a]]]
        fit == linregress(box_sizes_valid, box_counts_valid)
    IN  IF Cardinality(active_cells_indices(g)) < 2
        THEN [exit |-> "few_active", sizes |-> <<>>, counts |-> <<>>, value |-> ZeroDim]
        ELSE IF sizes = <<>>
        THEN [exit |-> "no_sizes", sizes |-> sizes, counts |-> <<>>, value |-> ZeroDim]
        ELSE IF Len(valid_indices) < 2
        THEN [exit |-> "few_valid", sizes |-> sizes, counts |-> counts, value |-> ZeroDim]
        ELSE IF fit.kind = "ValueError"
        THEN [exit |-> "value_error", sizes |-> sizes, counts |-> counts, value |-> ZeroDim]
        ELSE [exit |-> "slope", sizes |-> sizes, counts |-> counts, value |-> fit]

\* any grid of cell states of length 0 .. MaxGridLen, indexed from 0
BoxInit ==
    /\ \E n \in 0 .. MaxGridLen :
          grid_state \in [0 .. (n - 1) -> {SUSCEPTIBLE, INFECTED, RECOVERED}]
    /\ box_sizes = <<>>
    /\ box_counts = <<>>
    /\ box_exit = "none"
    /\ box_result = "none"
    /\ box_pc = "call"

\* one call of calculate_box_dimension(grid_state)
BoxCall ==
    /\ box_pc = "call"
    /\ LET r == calculate_box_dimension(grid_state)
       IN  /\ box_sizes' = r.sizes
           /\ box_counts' = r.counts
           /\ box_exit' = r.exit
           /\ box_result' = r.value
    /\ box_pc' = "done"
    /\ UNCHANGED <<grid_state, caVars, sirVars, mainVars>>

BoxNext == BoxCall

\* a call of the function, the rest of the module's state being idle
InitBox == BoxInit /\ CAIdle /\ SirIdle /\ MainIdle

SpecBox == InitBox /\ [][BoxNext]_vars

\* the length of the grid the estimator was called on
GridLen == Cardinality(DOMAIN grid_state)

IsPowerOfTwo(x) == \E e \in 0 .. GridLen : x = Pow2(e)

SeqRange(seq) == {seq[a] : a \in DOMAIN seq}

\* C4 as stated: whenever the box sizes are generated they are all the powers
\* of two strictly less than the grid length.
C4_AllPowersBelowL ==
    (box_pc = "done" /\ box_exit # "few_active") =>
        SeqRange(box_sizes) = {x \in 1 .. GridLen : IsPowerOfTwo(x) /\ x < GridLen}

\* C5: on a grid with fewer than 2 active cells the function returns 0.0.
C5_DegenerateIsZero ==
    (box_pc = "done" /\ Cardinality({i \in DOMAIN grid_state : grid_state[i] # SUSCEPTIBLE}) < 2)
        => box_result = ZeroDim

\* C5 witness: a call on a grid of four or more cells with exactly one active
\* cell has returned.
C5_Witness ==
    /\ box_pc = "done"
    /\ GridLen >= 4
    /\ Cardinality({i \in DOMAIN grid_state : grid_state[i] # SUSCEPTIBLE}) = 1
    /\ box_result = ZeroDim

\* C5 witness (second case): a call on an all-Susceptible grid has returned.
C5_WitnessAllSusceptible ==
    /\ box_pc = "done"
    /\ GridLen >= 4
    /\ \A i \in DOMAIN grid_state : grid_state[i] = SUSCEPTIBLE
    /\ box_result = ZeroDim

----------------------------------------------------------------------------
(* Exact rational arithmetic: a number is <<numerator, denominator>> in
   lowest terms with a positive denominator *)

RECURSIVE Gcd(_, _)
Gcd(a, b) == IF b = 0 THEN a ELSE Gcd(b, a % b)

RNorm(n, d) ==
    LET sn == IF d < 0 THEN -n ELSE n
        sd == IF d < 0 THEN -d ELSE d
        g == Gcd(IF sn < 0 THEN -sn ELSE sn, sd)
    IN  <<sn \div g, sd \div g>>

RInt(n) == <<n, 1>>
RAdd(a, b) ==
    LET g == Gcd(a[2], b[2])
    IN  RNorm(a[1] * (b[2] \div g) + b[1] * (a[2] \div g), (a[2] \div g) * b[2])
RNeg(a) == <<-a[1], a[2]>>
RSub(a, b) == RAdd(a, RNeg(b))
RMul(a, b) ==
    LET x == RNorm(a[1], b[2])
        y == RNorm(b[1], a[2])
    IN  <<x[1] * y[1], x[2] * y[2]>>
RDiv(a, b) == RMul(a, RNorm(b[2], b[1]))

----------------------------------------------------------------------------
(* sir_equations and run_sir_model *)

sir_equations_dR_of_R(y, N, beta, gamma) ==
    LET S == y[1]
        I == y[2]
        R == y[3]
        dS_dt == RDiv(RMul(RMul(RNeg(beta), S), I), N)
        dI_dt == RSub(RDiv(RMul(RMul(beta, S), I), N), RMul(gamma, I))
        dR_dt == RMul(gamma, R)
    IN  <<dS_dt, dI_dt, dR_dt>>

\* lines 11-17
sir_equations(y, N, beta, gamma) ==
    LET S == y[1]
        I == y[2]
        R == y[3]
        dS_dt == RDiv(RMul(RMul(RNeg(beta), S), I), N)
        dI_dt == RSub(RDiv(RMul(RMul(beta, S), I), N), RMul(gamma, I))
        dR_dt == RMul(gamma, I)
    IN  <<dS_dt, dI_dt, dR_dt>>

\* lines 21-22: S0 = N - I0 - R0; y0 = S0, I0, R0
initial_state(N, I0, R0) == <<RSub(RSub(N, I0), R0), I0, R0>>

\* the spacing of np.linspace(0, total_time, time_steps) (line 23)
linspace_step(total_time, points) == RDiv(total_time, RInt(points - 1))

\* odeint (line 24) advancing the solution by one point of the time grid:
\* an explicit step y + h * f(y) along the derivatives sir_equations returns
odeint_step(y, h, N, beta, gamma) ==
    LET d == sir_equations(y, N, beta, gamma)
    IN  [c \in 1 .. 3 |-> RAdd(y[c], RMul(h, d[c]))]

\* the arguments of run_sir_model; the rates are numerators over Denom
SirInit ==
    /\ sir_args \in [N : {RInt(n) : n \in 1 .. MaxN},
                     I0 : {RInt(n) : n \in 0 .. MaxN},
                     R0 : {RInt(n) : n \in 0 .. MaxN},
                     beta : {RNorm(n, Denom) : n \in ParamValues},
                     gamma : {RNorm(n, Denom) : n \in ParamValues},
                     total_time : {RInt(n) : n \in 1 .. MaxTime},
                     time_steps : 1 .. MaxPoints]
    /\ solution = <<initial_state(sir_args.N, sir_args.I0, sir_args.R0)>>
    /\ sir_pc = "integrate"

\* the numbers of a row are small enough for the model's integers
RowFits(y) == \A c \in 1 .. 3 : y[c][2] <= MaxDenominator

\* odeint produces the row of the next time point
SirStep ==
    /\ sir_pc = "integrate"
    /\ Len(solution) < sir_args.time_steps
    /\ LET next == odeint_step(solution[Len(solution)],
                        linspace_step(sir_args.total_time, sir_args.time_steps),
                        sir_args.N, sir_args.beta, sir_args.gamma)
       IN  /\ RowFits(next)
           /\ solution' = Append(solution, next)
    /\ UNCHANGED <<sir_args, sir_pc, caVars, boxVars, mainVars>>

\* lines 25-27: return t, S, I, R
SirReturn ==
    /\ sir_pc = "integrate"
    /\ Len(solution) >= sir_args.time_steps
    /\ sir_pc' = "done"
    /\ UNCHANGED <<sir_args, solution, caVars, boxVars, mainVars>>

SirNext == SirStep \/ SirReturn

\* a call of the function, the rest of the module's state being idle
InitSir == SirInit /\ CAIdle /\ BoxIdle /\ MainIdle

SpecSir == InitSir /\ [][SirNext]_vars

RSum3(v) == RAdd(RAdd(v[1], v[2]), v[3])

\* C6: with I0 + R0 <= N, at every time point S + I + R = N, and the three
\* derivatives sir_equations returns there sum to zero.
C6_Conservation ==
    (sir_pc # "idle" /\ RSub(sir_args.N, RAdd(sir_args.I0, sir_args.R0))[1] >= 0) =>
        \A r \in DOMAIN solution :
            /\ RSum3(solution[r]) = sir_args.N
            /\ RSum3(sir_equations(solution[r], sir_args.N, sir_args.beta, sir_args.gamma))
                  = RInt(0)

\* C6 witness: a returned solution with I0 + R0 <= N in which both the
\* infection and the recovery term moved population between time points.
C6_Witness ==
    /\ sir_pc = "done"
    /\ RSub(sir_args.N, RAdd(sir_args.I0, sir_args.R0))[1] >= 0
    /\ Len(solution) >= 3
    /\ solution[2][1] # solution[1][1]
    /\ solution[2][3] # solution[1][3]
    /\ solution[3] # solution[2]

----------------------------------------------------------------------------
(* main and the plotting functions.  console holds the lines written to
   standard output, one element per line; the messages are written here
   without their accents. *)

\* print(text): the lines of text are appended to the console
print(out, lines) == out \o lines

\* line 196
msg_run_sir == <<"Executando o modelo SIR...">>
\* line 199
msg_run_ca == <<"Executando o Automato Celular...">>
\* line 203
msg_calc_dimension == <<"Calculando a dimensao de similaridade ao longo do tempo...">>
\* line 207
msg_plots == <<"Gerando visualizacoes...">>
\* line 142
msg_sir_saved == <<"Grafico da curva SIR salvo.">>
\* line 161
msg_ca_saved == <<"Grafico da evolucao do AC salvo.">>

msg_dimension_saved_missing == <<>>

\* line 174
msg_dimension_saved == <<"Grafico da dimensao de similaridade salvo.">>
\* line 212: the text starts with "\n", so an empty line comes first
msg_done == <<"", "Simulacao concluida! Verifique os resultados na pasta 'data_output'.">>

\* the files plt.savefig writes (lines 140, 159, 172)
OutputFiles == {"sir_curve.png", "ca_evolution.png", "dimension_evolution.png"}

\* the output directory is absent, or present with any of the three files
\* left by an earlier run; can_write says whether the file system lets the
\* process create the directory and write into it
MainInit ==
    /\ console = <<>>
    /\ dir_exists \in BOOLEAN
    /\ files \in SUBSET OutputFiles
    /\ (~dir_exists => files = {})
    /\ can_write \in BOOLEAN
    /\ computed = {}
    /\ main_pc = "check_dir"

\* lines 193-194: os.makedirs unless the directory exists; a failure is not caught
MainCheckDir ==
    /\ main_pc = "check_dir"
    /\ \/ /\ dir_exists
          /\ main_pc' = "print_sir"
          /\ UNCHANGED dir_exists
       \/ /\ ~dir_exists
          /\ can_write
          /\ dir_exists' = TRUE
          /\ main_pc' = "print_sir"
       \/ /\ ~dir_exists
          /\ ~can_write
          /\ main_pc' = "failed"
          /\ UNCHANGED dir_exists
    /\ UNCHANGED <<console, files, can_write, computed, caVars, boxVars, sirVars>>

\* a print statement of main: lines 196, 199, 203, 207
MainPrint(at, lines, to) ==
    /\ main_pc = at
    /\ console' = print(console, lines)
    /\ main_pc' = to
    /\ UNCHANGED <<dir_exists, files, can_write, computed, caVars, boxVars, sirVars>>

\* a computing statement of main: lines 197, 200-201, 204
MainCompute(at, what, to) ==
    /\ main_pc = at
    /\ computed' = computed \cup {what}
    /\ main_pc' = to
    /\ UNCHANGED <<console, dir_exists, files, can_write, caVars, boxVars, sirVars>>

\* a plotting function called by main: plt.savefig, then print (lines 140-142,
\* 159-161, 172-174); a failing savefig is not caught and nothing is printed
MainPlot(at, file, lines, to) ==
    /\ main_pc = at
    /\ \/ /\ can_write
          /\ files' = files \cup {file}
          /\ console' = print(console, lines)
          /\ main_pc' = to
       \/ /\ ~can_write
          /\ main_pc' = "failed"
          /\ UNCHANGED <<files, console>>
    /\ UNCHANGED <<dir_exists, can_write, computed, caVars, boxVars, sirVars>>

MainPrintSir == MainPrint("print_sir", msg_run_sir, "run_sir")
MainRunSir == MainCompute("run_sir", "sir", "print_ca")
MainPrintCA == MainPrint("print_ca", msg_run_ca, "run_ca")
MainRunCA == MainCompute("run_ca", "ca_history", "print_dim")
MainPrintDim == MainPrint("print_dim", msg_calc_dimension, "calc_dim")
MainCalcDims == MainCompute("calc_dim", "dimensions", "print_plots")
MainPrintPlots == MainPrint("print_plots", msg_plots, "plot_sir")
MainPlotSir == MainPlot("plot_sir", "sir_curve.png", msg_sir_saved, "plot_ca")
MainPlotCA == MainPlot("plot_ca", "ca_evolution.png", msg_ca_saved, "plot_dim")
MainPlotDim == MainPlot("plot_dim", "dimension_evolution.png", msg_dimension_saved, "print_done")
\* line 212, after which main returns
MainPrintDone == MainPrint("print_done", msg_done, "done")

MainNext ==
    \/ MainCheckDir
    \/ MainPrintSir
    \/ MainRunSir
    \/ MainPrintCA
    \/ MainRunCA
    \/ MainPrintDim
    \/ MainCalcDims
    \/ MainPrintPlots
    \/ MainPlotSir
    \/ MainPlotCA
    \/ MainPlotDim
    \/ MainPrintDone

\* a call of the function, the rest of the module's state being idle
InitMain == MainInit /\ CAIdle /\ BoxIdle /\ SirIdle

SpecMain == InitMain /\ [][MainNext]_vars

\* the progress lines of the console: its lines that are not empty
ProgressLines == SelectSeq(console, LAMBDA line : line # "")

\* C7 as stated: a successful run has written exactly six progress lines.
C7_SixProgressLines ==
    main_pc = "done" => Len(ProgressLines) = 6

\* C7 amended: a successful run has written exactly eight progress lines, in
\* this order: the four stage lines, the three lines of the plots saved and
\* the completion line naming the output directory, which an empty line
\* precedes.
C7_EightProgressLines ==
    main_pc = "done" =>
        /\ Len(ProgressLines) = 8
        /\ console = << "Executando o modelo SIR...",
                        "Executando o Automato Celular...",
                        "Calculando a dimensao de similaridade ao longo do tempo...",
                        "Gerando visualizacoes...",
                        "Grafico da curva SIR salvo.",
                        "Grafico da evolucao do AC salvo.",
                        "Grafico da dimensao de similaridade salvo.",
                        "",
                        "Simulacao concluida! Verifique os resultados na pasta 'data_output'." >>

\* C7 witness: a run that had to create the output directory has succeeded,
\* with the three files written.
C7_Witness ==
    /\ main_pc = "done"
    /\ files = OutputFiles
    /\ computed = {"sir", "ca_history", "dimensions"}
    /\ Len(console) = 9

----------------------------------------------------------------------------
(* Properties of run_ca_simulation *)

\* the rows of grid_history written so far; all of them once ca_pc = "done"
Written == 0 .. (t - 1)

Row(r) == grid_history[r]

Active(r) == {i \in Cells(L) : Row(r)[i] # SUSCEPTIBLE}

RingNeighbours(i) == {(i + L - 1) % L, (i + 1) % L}

Abs(x) == IF x < 0 THEN -x ELSE x

RingDist(i, j) == IF Abs(i - j) <= L - Abs(i - j) THEN Abs(i - j) ELSE L - Abs(i - j)

\* a set of cells is one arc of the ring: it has at most one right end
IsArc(A) == Cardinality({i \in A : (i + 1) % L \notin A}) <= 1

\* C1: a cell that is Recovered in a row of the history is Recovered in every
\* later row.
C1_RecoveredAbsorbing ==
    \A r1 \in Written : \A r2 \in Written :
        r1 < r2 =>
            \A i \in Cells(L) : Row(r1)[i] = RECOVERED => Row(r2)[i] = RECOVERED

\* C1 witness: a returned history in which a cell recovered and two or more
\* rows follow the row of its recovery.
C1_Witness ==
    /\ ca_pc = "done"
    /\ \E i \in Cells(L) : \E r \in Written :
          /\ r >= 1
          /\ r + 1 \in Written
          /\ Row(r - 1)[i] = INFECTED
          /\ Row(r)[i] = RECOVERED
          /\ Row(r + 1)[i] = RECOVERED

\* C2: for L >= 2, row 0 of the history has exactly one Infected cell, at
\* index L // 2, and every other cell is Susceptible.
C2_InitialRow ==
    L >= 2 =>
        /\ {i \in Cells(L) : Row(0)[i] = INFECTED} = {L \div 2}
        /\ \A i \in Cells(L) : i # L \div 2 => Row(0)[i] = SUSCEPTIBLE

\* C2 witness: a returned history of several rows, with L >= 2, whose later
\* rows differ from row 0.
C2_Witness ==
    /\ ca_pc = "done"
    /\ L >= 2
    /\ time_steps >= 2
    /\ Row(1) # Row(0)
    /\ Row(0)[L \div 2] = INFECTED

\* C3: a cell Susceptible in row r-1 with
\* k_infection * infected_neighbors * I_sir[r] >= 1 is Infected in row r,
\* whatever the draw.
C3_CertainInfection ==
    \A r \in Written : \A i \in Cells(L) :
        ( /\ r >= 1
          /\ Row(r - 1)[i] = SUSCEPTIBLE
          /\ k_infection * infected_neighbors(Row(r - 1), i, L) * I_sir[r]
                >= Denom * Denom )
        => Row(r)[i] = INFECTED

\* C3 witness: prevalence 1, k_infection 1, a Susceptible cell with two
\* Infected ring neighbours, infected by the greatest draw.
C3_Witness ==
    /\ t >= 2
    /\ k_infection = Denom
    /\ I_sir[t - 1] = Denom
    /\ \E i \in Cells(L) :
          /\ Row(t - 2)[i] = SUSCEPTIBLE
          /\ infected_neighbors(Row(t - 2), i, L) = 2
          /\ rand[i] = Denom - 1
          /\ Row(t - 1)[i] = INFECTED

\* C8: a cell Susceptible in row r-1 is Infected in row r only if one of its
\* two ring neighbours is Infected in row r-1 and its draw is below
\* k_infection * infected_neighbors * I_sir[r]; with no Infected neighbour in
\* row r-1, or with I_sir[r] = 0, it stays Susceptible.
C8_SynchronousLocal ==
    /\ \A r \in Written : \A i \in Cells(L) :
          ( /\ r >= 1
            /\ Row(r - 1)[i] = SUSCEPTIBLE
            /\ \/ \A j \in RingNeighbours(i) : Row(r - 1)[j] # INFECTED
               \/ I_sir[r] = 0 )
          => Row(r)[i] = SUSCEPTIBLE
    /\ t >= 2 =>
          \A i \in Cells(L) :
              (Row(t - 2)[i] = SUSCEPTIBLE /\ Row(t - 1)[i] = INFECTED)
              => /\ \E j \in RingNeighbours(i) : Row(t - 2)[j] = INFECTED
                 /\ rand[i] # NoDraw
                 /\ rand[i] * Denom
                      < k_infection * infected_neighbors(Row(t - 2), i, L) * I_sir[t - 1]

\* C8 witness: in one step a cell is infected across the ring boundary
\* (indices L-1 and 0) while another Susceptible cell with an Infected
\* neighbour stays Susceptible.
C8_Witness ==
    /\ t >= 2
    /\ L >= 3
    /\ \E i \in {0, L - 1} :
          /\ Row(t - 2)[i] = SUSCEPTIBLE
          /\ Row(t - 1)[i] = INFECTED
          /\ Row(t - 2)[(L - 1) - i] = INFECTED
    /\ \E i \in Cells(L) :
          /\ Row(t - 2)[i] = SUSCEPTIBLE
          /\ Row(t - 1)[i] = SUSCEPTIBLE
          /\ infected_neighbors(Row(t - 2), i, L) > 0

\* C9: from one row to the next a cell either keeps its state or goes
\* Susceptible -> Infected or Infected -> Recovered.
C9_OnlyForwardTransitions ==
    \A r \in Written : \A i \in Cells(L) :
        /\ Row(r)[i] \in {SUSCEPTIBLE, INFECTED, RECOVERED}
        /\ r >= 1 =>
              \/ Row(r)[i] = Row(r - 1)[i]
              \/ Row(r - 1)[i] = SUSCEPTIBLE /\ Row(r)[i] = INFECTED
              \/ Row(r - 1)[i] = INFECTED /\ Row(r)[i] = RECOVERED

\* C9 witness: a returned history with a cell infected in one step and
\* recovered in the next one.
C9_Witness ==
    /\ ca_pc = "done"
    /\ \E i \in Cells(L) : \E r \in Written :
          /\ r >= 2
          /\ Row(r - 2)[i] = SUSCEPTIBLE
          /\ Row(r - 1)[i] = INFECTED
          /\ Row(r)[i] = RECOVERED

\* C10: in every row r the active cells form one arc of the ring that
\* contains L // 2 and lies within ring distance r of it, and a row's active
\* cells are active or next to an active cell in the row before.
C10_ContiguousArc ==
    \A r \in Written :
        /\ L \div 2 \in Active(r)
        /\ IsArc(Active(r))
        /\ \A i \in Active(r) : RingDist(i, L \div 2) <= r
        /\ r >= 1 =>
              \A i \in Active(r) :
                  \/ i \in Active(r - 1)
                  \/ \E j \in RingNeighbours(i) : j \in Active(r - 1)

\* C10 witness: a row of a ring of four or more cells whose active cells are
\* several but not all, so that a set that is no arc exists.
C10_Witness ==
    /\ L >= 4
    /\ \E r \in Written :
          /\ r >= 2
          /\ Cardinality(Active(r)) >= 2
          /\ Cardinality(Active(r)) < L - 1
          /\ Active(r) # Active(r - 1)

====
